---- MODULE Spec2Model ----
(***************************************************************************)
(* Family registry service (api/index.py): the stored member list, the     *)
(* relationship engine, the tree builder with its scratch files, and the   *)
(* write handlers (POST / PUT / DELETE) as load-then-save requests.        *)
(*                                                                         *)
(* Encoding.  A member is a record [id, name, anggota, parent1_id,         *)
(* parent2_id].  Python's None (and an absent optional key, which          *)
(* member.get(..) reads as None) is the integer None below; ids are the    *)
(* naturals.  A request body is a function from the field names   *)
(* it supplies to their values.  The remote store is taken as a plain      *)
(* get/set cell: "no data" and the empty list are both <<>>.               *)
(***************************************************************************)
EXTENDS Integers, Sequences, FiniteSets, TLC

VARIABLES
    store,          \* db.reference("family"): the stored member list
    pc,             \* the read request: "ready", then "relationship" or "tree"
    member_id,      \* subject of the last relationship query
    id_to_member,   \* the index built by calculate_relationship
    relationships,  \* the mapping returned by calculate_relationship
    response,       \* body of the last read response
    graph,          \* the Digraph built by generate_family_tree
    fs,             \* scratch paths existing on disk
    status,         \* HTTP status of the last read response
    req,            \* per worker: the write request in flight
    resp,           \* per worker: the last write response
    hist            \* history: which requests overlapped, whether a save was overwritten

vars == <<store, pc, member_id, id_to_member, relationships, response, graph,
          fs, status, req, resp, hist>>

readVars == <<pc, member_id, id_to_member, relationships, response, graph, fs, status>>
writeVars == <<req, resp, hist>>

-----------------------------------------------------------------------------
(* Bounds *)

MaxId == 2
MaxLen == 3
MaxStore == 2
\* the smaller family lists of SpecQuery
MaxQueryId == 1
MaxQueryLen == 2

\* Python's None
None == -1

EmptyMap == [x \in {} |-> x]

\* subjects of a query: every id in use and one that no member has
Subjects == 0 .. (MaxId + 1)

MembersUpTo(n) ==
    [id : 0 .. n, name : {"A"}, anggota : {"G"},
     parent1_id : {None} \cup 0 .. n, parent2_id : {None} \cup 0 .. n]

Members == MembersUpTo(MaxId)

SeqsUpTo(S, n) == UNION {[1 .. k -> S] : k \in 0 .. n}

\* bool(x) for x an int or None
Truthy(x) == x # None /\ x # 0

-----------------------------------------------------------------------------
(* Store adapter *)

load_data(s) == IF Len(s) # 0 THEN s ELSE <<>>

save_data(data) == data

-----------------------------------------------------------------------------
(* Relationship engine *)

Put(d, k, v) == [x \in DOMAIN d \cup {k} |-> IF x = k THEN v ELSE d[x]]

\* {member["id"]: member for member in family}: a later record overwrites
RECURSIVE IndexUpTo(_, _)
IndexUpTo(family, n) ==
    IF n = 0 THEN EmptyMap
    ELSE Put(IndexUpTo(family, n - 1), family[n].id, family[n])

BuildIndex(family) == IndexUpTo(family, Len(family))

\* id_to_member.get(key, {}).get("parent1_id")
GetParent1(index, key) == IF key \in DOMAIN index THEN index[key].parent1_id ELSE None

\* id_to_member.get(key, {}).get("parent2_id")
GetParent2(index, key) == IF key \in DOMAIN index THEN index[key].parent2_id ELSE None

IsAnak(m, subject) == subject \in {m.parent1_id, m.parent2_id}

IsCucu(index, m, subject) ==
    \E parent_id \in {m.parent1_id, m.parent2_id} :
        Truthy(parent_id) /\ GetParent1(index, parent_id) = subject

IsKeponakan(index, m, subject) ==
    subject \in {GetParent1(index, m.parent1_id), GetParent2(index, m.parent1_id)}

IsSaudara(index, m, subject) ==
    Truthy(m.parent1_id)
    /\ GetParent1(index, m.parent1_id) = GetParent1(index, subject)

NoLabel == "-"

LabelSaudaraFirst(index, m, subject) ==
    IF IsSaudara(index, m, subject) THEN "Saudara"
    ELSE IF IsKeponakan(index, m, subject) THEN "Keponakan"
    ELSE IF IsCucu(index, m, subject) THEN "Cucu"
    ELSE IF IsAnak(m, subject) THEN "Anak"
    ELSE NoLabel

\* the if / elif chain of the loop body
Label(index, m, subject) ==
    IF IsAnak(m, subject) THEN "Anak"
    ELSE IF IsCucu(index, m, subject) THEN "Cucu"
    ELSE IF IsKeponakan(index, m, subject) THEN "Keponakan"
    ELSE IF IsSaudara(index, m, subject) THEN "Saudara"
    ELSE NoLabel

\* the dict `relationships`, with its insertion order, after the first n members
RECURSIVE RelateUpTo(_, _, _, _)
RelateUpTo(family, index, subject, n) ==
    IF n = 0 THEN [keys |-> <<>>, val |-> EmptyMap]
    ELSE LET prev == RelateUpTo(family, index, subject, n - 1)
             m == family[n]
             l == Label(index, m, subject)
         IN  IF m.id = subject \/ l = NoLabel THEN prev
             ELSE [keys |-> IF m.id \in DOMAIN prev.val THEN prev.keys
                            ELSE Append(prev.keys, m.id),
                   val |-> Put(prev.val, m.id, l)]

calculate_relationship(family, subject) ==
    RelateUpTo(family, BuildIndex(family), subject, Len(family))

\* next((member["name"] for member in data if member["id"] == related_id), "Unknown")
NameOf(data, related_id) ==
    IF \E i \in DOMAIN data : data[i].id = related_id
    THEN data[CHOOSE i \in DOMAIN data :
                  /\ data[i].id = related_id
                  /\ \A j \in DOMAIN data : data[j].id = related_id => i <= j].name
    ELSE "Unknown"

\* GET /family/relationship/<member_id>
describe_relationship(subject) ==
    /\ pc = "ready"
    /\ LET data == load_data(store)
           r == calculate_relationship(data, subject)
       IN  /\ member_id' = subject
           /\ id_to_member' = BuildIndex(data)
           /\ relationships' = r.val
           /\ response' = [i \in 1 .. Len(r.keys) |->
                              [id |-> r.keys[i],
                               name |-> NameOf(data, r.keys[i]),
                               relationship |-> r.val[r.keys[i]]]]
    /\ status' = 200
    /\ pc' = "relationship"
    /\ UNCHANGED <<store, graph, fs>>
    /\ UNCHANGED writeVars

-----------------------------------------------------------------------------
(* Tree builder *)

\* graph.node(str(member["id"]), label=f'{name}\n({anggota})', shape="box")
Node(m) == [name |-> ToString(m.id), label |-> <<m.name, m.anggota>>]

Nodes(family) == [i \in DOMAIN family |-> Node(family[i])]

\* the edges one member contributes, parent1 first
EdgesOf(m) ==
    (IF Truthy(m.parent1_id) THEN <<<<ToString(m.parent1_id), ToString(m.id)>>>> ELSE <<>>)
    \o (IF Truthy(m.parent2_id) THEN <<<<ToString(m.parent2_id), ToString(m.id)>>>> ELSE <<>>)

RECURSIVE EdgesUpTo(_, _)
EdgesUpTo(family, n) ==
    IF n = 0 THEN <<>> ELSE EdgesUpTo(family, n - 1) \o EdgesOf(family[n])

BuildGraph(family) == [nodes |-> Nodes(family), edges |-> EdgesUpTo(family, Len(family))]

\* scratch paths of one request: tempfile.mkdtemp(), the DOT source written by
\* graph.render, and the rendered PNG
TempDir == <<"tmp">>
SourceFile == <<"tmp", "family_tree">>
PngFile == <<"tmp", "family_tree.png">>

\* What graph.render leaves in the directory.  "ok": the PNG, the source removed
\* (cleanup=True).  "raises": the renderer fails, with or without the source
\* already written.  "no_png": render returns but the PNG is absent.
RenderOutcomes == {"ok", "raises_source_left", "raises", "no_png"}
SendOutcomes == {"sent", "send_raises"}

Rendered(outcome) ==
    CASE outcome = "ok" -> {TempDir, PngFile}
      [] outcome = "raises_source_left" -> {TempDir, SourceFile}
      [] OTHER -> {TempDir}

\* generate_family_tree returns full_path only when render succeeded and the PNG exists
Returns(outcome) == outcome = "ok"

\* the finally block of family_tree: only when image_path was assigned and exists
Cleanup(files, assigned) ==
    IF assigned /\ PngFile \in files
    THEN LET removed == files \ {PngFile}
         IN  IF removed = {TempDir} THEN {} ELSE removed
    ELSE files

\* GET /family/tree
family_tree(render, send) ==
    /\ pc = "ready"
    /\ LET data == load_data(store)
           files == Rendered(render)
       IN  /\ graph' = BuildGraph(data)
           /\ fs' = Cleanup(fs \cup files, Returns(render))
           /\ status' = IF Returns(render) /\ send = "sent" THEN 200 ELSE 500
    /\ response' = <<>>
    /\ pc' = "tree"
    /\ UNCHANGED <<store, member_id, id_to_member, relationships>>
    /\ UNCHANGED writeVars

-----------------------------------------------------------------------------
(* Write handlers.  A handler first loads the whole list (Load) and later      *)
(* validates, changes its own copy and saves it wholesale; other workers may   *)
(* run between the two.                                                        *)

\* dict.get(key, default)
Get(b, key, default) == IF key \in DOMAIN b THEN b[key] ELSE default

\* the bodies that supply, per field, nothing or one of the given values
Opt(key, values) == {EmptyMap} \cup {key :> v : v \in values}

\* the first required field the body lacks, "-" when none
MissingField(b) ==
    IF "id" \notin DOMAIN b THEN "id"
    ELSE IF "name" \notin DOMAIN b THEN "name"
    ELSE IF "anggota" \notin DOMAIN b THEN "anggota"
    ELSE "-"

\* the body after the two setdefault calls
NewMember(b) ==
    [id |-> b["id"], name |-> b["name"], anggota |-> b["anggota"],
     parent1_id |-> Get(b, "parent1_id", None),
     parent2_id |-> Get(b, "parent2_id", None)]

\* index of the first member with this id, 0 when none: the loop returns at its first match
FirstWithId(data, id) ==
    IF \E i \in DOMAIN data : data[i].id = id
    THEN CHOOSE i \in DOMAIN data :
             /\ data[i].id = id
             /\ \A j \in DOMAIN data : data[j].id = id => i <= j
    ELSE 0

UpdatedAllFields(member, b) ==
    [id |-> member.id,
     name |-> Get(b, "name", "A"),
     anggota |-> Get(b, "anggota", "G"),
     parent1_id |-> Get(b, "parent1_id", None),
     parent2_id |-> Get(b, "parent2_id", None)]

\* the four assignments to the matched member
Updated(member, b) ==
    [id |-> member.id,
     name |-> Get(b, "name", member.name),
     anggota |-> Get(b, "anggota", member.anggota),
     parent1_id |-> Get(b, "parent1_id", member.parent1_id),
     parent2_id |-> Get(b, "parent2_id", member.parent2_id)]

IsNot(id, m) == m.id # id

\* [member for member in data["family"] if member["id"] != member_id]
Without(data, id) == SelectSeq(data, LAMBDA m : IsNot(id, m))

Outcome(st, field, saved, data) == [status |-> st, field |-> field, saved |-> saved, data |-> data]

\* POST /family, after load_data
add_outcome(data, b) ==
    IF MissingField(b) # "-" THEN Outcome(400, MissingField(b), FALSE, data)
    ELSE Outcome(201, "-", TRUE, Append(data, NewMember(b)))

\* PUT /family/<member_id>, after load_data
update_outcome(data, id, b) ==
    LET i == FirstWithId(data, id)
    IN  IF i = 0 THEN Outcome(404, "-", FALSE, data)
        ELSE Outcome(200, "-", TRUE, [data EXCEPT ![i] = Updated(data[i], b)])


DeleteUnchecked(data, id) == Outcome(200, "-", TRUE, Without(data, id))

\* DELETE /family/<member_id>, after load_data
delete_outcome(data, id) ==
    IF Len(Without(data, id)) = Len(data) THEN Outcome(404, "-", FALSE, data)
    ELSE Outcome(200, "-", TRUE, Without(data, id))

Handle(r, data) ==
    CASE r.op = "POST" -> add_outcome(data, r.body)
      [] r.op = "PUT" -> update_outcome(data, r.member_id, r.body)
      [] OTHER -> delete_outcome(data, r.member_id)

\* the store a handler leaves when it runs on `data` while the store holds `s`
StoreAfter(r, data, s) ==
    LET out == Handle(r, data) IN IF out.saved THEN save_data(out.data) ELSE s

SnapshotReloaded(p) == load_data(store)

\* the handler's local `data`: what load_data returned when the request started
Snapshot(p) == req[p].data

\* a worker with no request in hand, and the response slot before any request
Idle == [pc |-> "idle"]
NoResp == [op |-> "-", status |-> 0, field |-> "-", saved |-> FALSE]

InFlight(p) == req[p].pc = "loaded"

\* data = load_data(), first statement of each write handler
Load(p, r) ==
    /\ req[p].pc = "idle"
    /\ r.op = "POST" => Len(store) < MaxStore
    /\ req' = [req EXCEPT ![p] = [pc |-> "loaded", op |-> r.op, member_id |-> r.member_id,
                                  body |-> r.body, data |-> load_data(store)]]
    /\ hist' = [hist EXCEPT !.overlap = \E o \in DOMAIN req \ {p} : InFlight(o)]
    /\ UNCHANGED <<store, resp>>
    /\ UNCHANGED readVars

\* the rest of the handler: validate, change the local copy, save, respond
Finish(p, op) ==
    /\ InFlight(p)
    /\ req[p].op = op
    /\ LET out == Handle(req[p], Snapshot(p))
       IN  /\ store' = IF out.saved THEN save_data(out.data) ELSE store
           /\ resp' = [resp EXCEPT ![p] = [op |-> op, status |-> out.status, field |-> out.field,
                                           saved |-> out.saved]]
           /\ hist' = [hist EXCEPT !.lost =
                          IF out.saved
                          THEN out.data # StoreAfter(req[p], load_data(store), store)
                          ELSE @]
    /\ req' = [req EXCEPT ![p] = Idle]
    /\ UNCHANGED readVars

add_family_member(p) == Finish(p, "POST")

update_family_member(p) == Finish(p, "PUT")

delete_family_member(p) == Finish(p, "DELETE")

Request(op, id, b) == [op |-> op, member_id |-> id, body |-> b]

HttpIds == {1, 2}
\* ids of a PUT or DELETE url: the ids in use and one that no member has
UrlIds == {1, 2, 3}

PostBodies ==
    {a @@ b @@ c @@ d : a \in Opt("id", HttpIds), b \in Opt("name", {"A"}),
                        c \in Opt("anggota", {"G"}), d \in Opt("parent1_id", {1})}

PutBodies ==
    {a @@ b @@ c @@ d : a \in Opt("name", {"B"}), b \in Opt("anggota", {"H"}),
                        c \in Opt("parent1_id", {None}), d \in Opt("parent2_id", {1})}
    \cup {("id" :> 2) @@ ("name" :> "B")}

HttpRequests ==
    {Request("POST", None, b) : b \in PostBodies}
    \cup {Request("PUT", id, b) : id \in UrlIds, b \in PutBodies}
    \cup {Request("DELETE", id, EmptyMap) : id \in UrlIds}

\* the concurrent workers add members 1 and 2, and update or delete member 1
RaceRequests ==
    {Request("POST", None, ("id" :> id) @@ ("name" :> "A") @@ ("anggota" :> "G")) : id \in HttpIds}
    \cup {Request("PUT", 1, "name" :> "B"), Request("DELETE", 1, EmptyMap)}

-----------------------------------------------------------------------------
(* Read requests over every store content *)

InitRead ==
    /\ pc = "ready"
    /\ member_id = None
    /\ id_to_member = EmptyMap
    /\ relationships = EmptyMap
    /\ response = <<>>
    /\ graph = [nodes |-> <<>>, edges |-> <<>>]
    /\ fs = {}
    /\ status = 0

InitWrite(workers) ==
    /\ req = [p \in workers |-> Idle]
    /\ resp = [p \in workers |-> NoResp]
    /\ hist = [overlap |-> FALSE, lost |-> FALSE]

Init ==
    /\ store \in SeqsUpTo(Members, MaxLen)
    /\ InitRead
    /\ InitWrite({1})

Next ==
    \/ \E subject \in Subjects : describe_relationship(subject)
    \/ \E render \in RenderOutcomes, send \in SendOutcomes : family_tree(render, send)

Spec == Init /\ [][Next]_vars

(* Relationship queries alone, over the smaller family lists *)

InitQuery ==
    /\ store \in SeqsUpTo(MembersUpTo(MaxQueryId), MaxQueryLen)
    /\ InitRead
    /\ InitWrite({1})

NextQuery == \E subject \in 0 .. (MaxQueryId + 1) : describe_relationship(subject)

SpecQuery == InitQuery /\ [][NextQuery]_vars

(* One worker: requests run one after another *)

InitHttp ==
    /\ store = <<>>
    /\ InitRead
    /\ InitWrite({1})

NextHttp ==
    \/ \E p \in DOMAIN req, r \in HttpRequests : Load(p, r)
    \/ \E p \in DOMAIN req : add_family_member(p)
    \/ \E p \in DOMAIN req : update_family_member(p)
    \/ \E p \in DOMAIN req : delete_family_member(p)

SpecHttp == InitHttp /\ [][NextHttp]_vars

(* Two workers serving requests concurrently *)

Workers == {1, 2}

InitRace ==
    /\ store = <<>>
    /\ InitRead
    /\ InitWrite(Workers)

NextRace ==
    \/ \E p \in DOMAIN req, r \in RaceRequests : Load(p, r)
    \/ \E p \in DOMAIN req : add_family_member(p)
    \/ \E p \in DOMAIN req : update_family_member(p)
    \/ \E p \in DOMAIN req : delete_family_member(p)

SpecRace == InitRace /\ [][NextRace]_vars

-----------------------------------------------------------------------------
(* Properties *)

Queried == pc = "relationship"

UniqueIds(family) ==
    \A i, j \in DOMAIN family : family[i].id = family[j].id => i = j

Labelled(id, label) == id \in DOMAIN relationships /\ relationships[id] = label

ParentsOf(m) == {m.parent1_id, m.parent2_id}

\* some record that is a parent of m names the subject as one of its parents
IsGrandparent(family, subject, m) ==
    \E k \in DOMAIN family :
        family[k].id \in ParentsOf(m) \ {None} /\ subject \in ParentsOf(family[k])

\* C1: a member that has the same non-null parent1_id as the subject, and of
\* which the subject is neither parent nor grandparent, is labelled Saudara
\* (sibling).  Stated for the families of the kind of Scenario C: unique ids,
\* and the shared parent a member with a positive id and no parents of its own.
C1_SiblingsLabelled ==
    (Queried /\ UniqueIds(store)) =>
        \A i, j, k \in DOMAIN store :
            (/\ store[i].id = member_id
             /\ store[j].id # member_id
             /\ store[i].parent1_id # None
             /\ store[j].parent1_id = store[i].parent1_id
             /\ member_id \notin ParentsOf(store[j])
             /\ ~IsGrandparent(store, member_id, store[j])
             /\ store[k].id = store[i].parent1_id
             /\ store[k].id > 0
             /\ ParentsOf(store[k]) = {None})
            => Labelled(store[j].id, "Saudara")

Priority == <<"Anak", "Cucu", "Keponakan", "Saudara">>

Matches(index, m, subject, k) ==
    CASE k = 1 -> IsAnak(m, subject)
      [] k = 2 -> IsCucu(index, m, subject)
      [] k = 3 -> IsKeponakan(index, m, subject)
      [] OTHER -> IsSaudara(index, m, subject)

\* the label of the highest-priority rule the member matches, NoLabel when none
Expected(index, m, subject) ==
    IF \E k \in DOMAIN Priority : Matches(index, m, subject, k)
    THEN Priority[CHOOSE k \in DOMAIN Priority :
                      /\ Matches(index, m, subject, k)
                      /\ \A h \in DOMAIN Priority : Matches(index, m, subject, h) => k <= h]
    ELSE NoLabel

EveryMemberHasItsLabel ==
    \A j \in DOMAIN store :
        store[j].id # member_id =>
            LET e == Expected(id_to_member, store[j], member_id)
            IN  IF e = NoLabel THEN store[j].id \notin DOMAIN relationships
                ELSE Labelled(store[j].id, e)

C3_UnknownSubjectEmpty ==
    (Queried /\ \A i \in DOMAIN store : member_id \notin {store[i].id} \cup ParentsOf(store[i]))
        => DOMAIN relationships = {}

\* C4: the index resolves every id to the first record of the list with that id.
C4_FirstOccurrenceWins ==
    Queried =>
        \A k \in DOMAIN id_to_member :
            \E i \in DOMAIN store :
                /\ store[i].id = k
                /\ \A j \in DOMAIN store : store[j].id = k => i <= j
                /\ id_to_member[k] = store[i]

Completes(p) == req[p].pc = "loaded" /\ req'[p].pc = "idle"

\* C5: a PUT or DELETE whose id no stored member has answers 404, saves nothing
\* and leaves the stored list as it was.
C5_NotFoundLeavesStore ==
    [][\A p \in DOMAIN req :
           (/\ Completes(p)
            /\ req[p].op \in {"PUT", "DELETE"}
            /\ \A i \in DOMAIN store : store[i].id # req[p].member_id)
           => (resp'[p].status = 404 /\ ~resp'[p].saved /\ store' = store)]_vars

\* a DELETE answered 404 on a store that holds members
C5_Witness ==
    \E p \in DOMAIN resp :
        resp[p].op = "DELETE" /\ resp[p].status = 404 /\ Len(store) > 0

\* C6: once a tree request has completed, on every exit path, nothing of its
\* scratch directory is left on disk.
C6_ScratchReleased == pc = "tree" => fs = {}

ParentFields == {"parent1_id", "parent2_id"}

\* C7: the graph has one node per member and exactly one edge parent -> member
\* per non-null parent reference, ids 0 included.
C7_EdgePerParentReference ==
    pc = "tree" =>
        LET refs == {x \in (DOMAIN store) \X ParentFields : store[x[1]][x[2]] # None}
            EdgeOf(x) == <<ToString(store[x[1]][x[2]]), ToString(store[x[1]].id)>>
        IN  /\ Len(graph.nodes) = Len(store)
            /\ Len(graph.edges) = Cardinality(refs)
            /\ \A x \in refs : \E e \in DOMAIN graph.edges : graph.edges[e] = EdgeOf(x)
            /\ \A e \in DOMAIN graph.edges : \E x \in refs : graph.edges[e] = EdgeOf(x)
            /\ Len(graph.edges) <= 2 * Len(store)

UpdatableFields == {"name", "anggota", "parent1_id", "parent2_id"}

\* C8: a PUT on an existing id sets, in the first member with that id, exactly
\* the supplied fields among name, anggota, parent1_id and parent2_id; its other
\* fields and its id, every other member, and the length and order of the list
\* stay as they were.
C8_UpdateFrame ==
    [][\A p \in DOMAIN req :
           (/\ Completes(p)
            /\ req[p].op = "PUT"
            /\ \E i \in DOMAIN store : store[i].id = req[p].member_id)
           => LET i == CHOOSE i \in DOMAIN store :
                           /\ store[i].id = req[p].member_id
                           /\ \A j \in 1 .. (i - 1) : store[j].id # req[p].member_id
                  b == req[p].body
              IN  /\ resp'[p].status = 200
                  /\ Len(store') = Len(store)
                  /\ \A j \in DOMAIN store : j # i => store'[j] = store[j]
                  /\ store'[i].id = store[i].id
                  /\ \A f \in UpdatableFields :
                         store'[i][f] = IF f \in DOMAIN b THEN b[f] ELSE store[i][f]]_vars

\* a PUT that renamed the first member, kept its anggota, and left the second alone
C8_Witness ==
    /\ \E p \in DOMAIN resp : resp[p].op = "PUT" /\ resp[p].status = 200
    /\ Len(store) = 2
    /\ store[1].name = "B" /\ store[1].anggota = "G"
    /\ store[2].name = "A"

\* C9: in a list with unique ids, a member other than the subject is labelled
\* Cucu exactly when the subject is not one of its parents and the member
\* indexed under one of its non-null parent ids (0 included) has the subject as
\* parent1_id.
C9_GrandchildRule ==
    (Queried /\ UniqueIds(store)) =>
        \A j \in DOMAIN store :
            store[j].id # member_id =>
                (Labelled(store[j].id, "Cucu")
                 <=> (/\ member_id \notin ParentsOf(store[j])
                      /\ \E parent_id \in ParentsOf(store[j]) \ {None} :
                             \E k \in DOMAIN store :
                                 /\ store[k].id = parent_id
                                 /\ store[k].parent1_id = member_id))

Succeeded(r) == r.status \in {200, 201}

\* C10: a successful write leaves in the store exactly the list the writer
\* loaded with its own change applied, whatever was saved in between (the last
\* save wins); and a save discards another request's saved change only when
\* the two requests overlapped, so writes that run one after another are all
\* reflected in the store.
C10_LastSaveWins ==
    [][\A p \in DOMAIN req :
           Completes(p) =>
               /\ Succeeded(resp'[p]) => store' = StoreAfter(req[p], req[p].data, store)
               /\ ~Succeeded(resp'[p]) => store' = store
               /\ (resp'[p].saved /\ hist'.lost) => hist.overlap
               /\ ~hist.overlap => store' = StoreAfter(req[p], load_data(store), store)]_vars

\* both workers were answered 201 for their POST, and the store holds only the
\* member saved last
C10_Witness ==
    /\ \A p \in DOMAIN resp : resp[p].op = "POST" /\ resp[p].status = 201
    /\ hist.lost
    /\ Len(store) = 1

====
